---- MODULE Spec2Model ----
(***************************************************************************)
(* Big-Data-Analytics-for-Business: the cluster command cheat sheet, the   *)
(* joins notebook and the Spark SQL notebook, as state machines.           *)
(*                                                                         *)
(*   Spec      the cheat sheet run in its written order, with the two      *)
(*             notebooks run cell by cell in the Jupyter it opens.         *)
(*   SpecJoin  the join cells of the joins notebook applied to DataFrames  *)
(*             drawn from a bounded family (the notebook's own literals    *)
(*             among them).                                                *)
(***************************************************************************)
EXTENDS Integers, Sequences, FiniteSets, TLC

VARIABLES
  sheetPc,      \* sections of the cheat sheet already run (0..4)
  sheetLog,     \* outcome of each command run so far, in order
  clusters,     \* the Dataproc clusters that exist
  tunnel,       \* the SSH port forwards that are up (none or one)
  jupyter,      \* localhost:8080 shows the Jupyter server
  joinsEnv,     \* joins notebook: the kernel's variables (name -> value)
  joinsPc,      \* joins notebook: code cells executed so far
  joinsCount,   \* joins notebook: the kernel's execution counter
  joinsStamp,   \* joins notebook: execution count stamped on each code cell
  joinsOut,     \* joins notebook: output of each executed code cell
  joinsSession, \* joins notebook: its Spark session (temp views, next attribute id)
  sqlPc,        \* Spark SQL notebook: code cells executed so far
  sqlCount,     \* Spark SQL notebook: the kernel's execution counter
  sqlStamp,     \* Spark SQL notebook: execution count stamped on each cell
  sqlOut,       \* Spark SQL notebook: output of each executed code cell
  sqlHalted,    \* Spark SQL notebook: a cell raised and stopped the run
  sqlRun,       \* Spark SQL notebook: number of the run from the top (1, 2, ..)
  sqlLog,       \* Spark SQL notebook: what each executed cell did, run by run
  sqlEnv,       \* Spark SQL notebook: the kernel's variables (name -> value)
  catalog,      \* Spark SQL session: tables and views of the catalog
  cached        \* Spark SQL session: names of the cached tables

sheetVars == <<sheetPc, sheetLog, clusters, tunnel, jupyter>>
joinsVars == <<joinsEnv, joinsPc, joinsCount, joinsStamp, joinsOut,
               joinsSession>>
sqlVars   == <<sqlPc, sqlCount, sqlStamp, sqlOut, sqlHalted, sqlRun, sqlLog,
               sqlEnv, catalog, cached>>
vars      == <<sheetVars, joinsVars, sqlVars>>

(***************************************************************************)
(* PART A.  The cluster command cheat sheet (src/unnamed/part_000:750-784) *)
(***************************************************************************)

\* A command line is a sequence of tokens: a word, a flag "--k", a flag with
\* an attached value "--k=v", or the bare "--" that ends gcloud's own flags.
W(v)     == [t |-> "word", k |-> "",  v |-> v]
F(k)     == [t |-> "flag", k |-> k,   v |-> ""]
FE(k, v) == [t |-> "flageq", k |-> k, v |-> v]
DD       == [t |-> "--",   k |-> "",  v |-> ""]

\* CREATE SINGLE-NODE CLUSTER: the eleven lines joined by their trailing
\* backslashes into one command line.
CreateCmd ==
  << W("gcloud"), W("beta"), W("dataproc"), W("clusters"), W("create"),
     W("mycluster"),
     F("project"), W("<PROJECT-ID>"),
     F("bucket"), W("<BUCKET-NAME>"),
     FE("optional-components", "ANACONDA,JUPYTER"),
     FE("image-version", "1.3"),
     F("enable-component-gateway"),
     F("region"), W("us-east1"),
     F("zone"), W("us-east1-b"),
     F("single-node"),
     F("master-machine-type"), W("n1-highmem-2"),
     F("master-boot-disk-size"), W("50") >>

\* CREATE SINGLE-NODE CLUSTER ONE-LINER.
CreateOneLinerCmd ==
  << W("gcloud"), W("beta"), W("dataproc"), W("clusters"), W("create"),
     W("mycluster"),
     F("project"), W("<PROJECT-ID>"),
     F("bucket"), W("<BUCKET-NAME>"),
     FE("optional-components", "ANACONDA,JUPYTER"),
     FE("image-version", "1.4"),
     F("enable-component-gateway"),
     F("region"), W("us-east1"),
     F("zone"), W("us-east1-b"),
     F("single-node"),
     F("master-machine-type"), W("n1-highmem-2"),
     F("master-boot-disk-size"), W("50") >>

\* SSH Tunnel: everything after "--" goes to ssh; -L 8080:localhost:8123 is
\* kept as the three parts of the forward.
LocalPort == 8080
RemotePort == 8123
SshCmd ==
  << W("gcloud"), W("compute"), W("ssh"), W("mycluster-m"),
     F("zone"), W("us-east1-b"), DD >>
SshForward == [local |-> LocalPort, host |-> "localhost", remote |-> RemotePort]

\* JUPYTER NOTEBOOK: the address typed into the browser.
JupyterUrl == [host |-> "localhost", port |-> 8080]

\* TERMINATE CLUSTER.
DeleteCmdOtherRegion ==
  << W("gcloud"), W("dataproc"), W("clusters"), W("delete"), W("mycluster"),
     F("region"), W("us-east4") >>
DeleteCmd ==
  << W("gcloud"), W("dataproc"), W("clusters"), W("delete"), W("mycluster"),
     F("region"), W("us-east1") >>

\* gcloud's argument parsing: "--k=v" binds v; "--k" followed by a word binds
\* that word; "--k" followed by another flag (or by nothing) is a switch;
\* any other word is positional; "--" stops the parsing.
RECURSIVE ParseFrom(_, _, _)
ParseFrom(toks, i, acc) ==
  IF i > Len(toks) \/ toks[i].t = "--" THEN acc
  ELSE IF toks[i].t = "word"
    THEN ParseFrom(toks, i + 1, [acc EXCEPT !.words = Append(@, toks[i].v)])
  ELSE IF toks[i].t = "flageq"
    THEN ParseFrom(toks, i + 1,
           [acc EXCEPT !.flags = @ \cup {<<toks[i].k, toks[i].v>>}])
  ELSE IF i < Len(toks) /\ toks[i + 1].t = "word"
    THEN ParseFrom(toks, i + 2,
           [acc EXCEPT !.flags = @ \cup {<<toks[i].k, toks[i + 1].v>>}])
  ELSE ParseFrom(toks, i + 1,
           [acc EXCEPT !.flags = @ \cup {<<toks[i].k, "true">>}])

Parse(toks) == ParseFrom(toks, 1, [words |-> <<>>, flags |-> {}])

\* The resource a command names (its last positional word) and a flag's value
\* ("" when the flag is absent).
Target(cmd) == cmd.words[Len(cmd.words)]
Flag(cmd, k) ==
  IF \E p \in cmd.flags : p[1] = k
  THEN (CHOOSE p \in cmd.flags : p[1] = k)[2]
  ELSE ""

\* The command group, with the release track ("beta") left out: the beta and
\* the GA track address the same clusters.
RECURSIVE DropWord(_, _)
DropWord(ws, w) ==
  IF ws = <<>> THEN <<>>
  ELSE IF Head(ws) = w THEN DropWord(Tail(ws), w)
  ELSE <<Head(ws)>> \o DropWord(Tail(ws), w)
Verb(cmd) == DropWord(SubSeq(cmd.words, 1, Len(cmd.words) - 1), "beta")

\* Commands without --project act on gcloud's configured project, which is
\* the project the user puts in place of <PROJECT-ID>.
ConfiguredProject == "<PROJECT-ID>"
Project(cmd) ==
  IF Flag(cmd, "project") = "" THEN ConfiguredProject ELSE Flag(cmd, "project")

\* A single-node cluster is one VM, named after the cluster with "-m" added.
MasterInstance(name) == name \o "-m"

\* gcloud dataproc clusters create: adds the cluster unless one of that name
\* already exists in the project and region.
SameCluster(c, cmd) ==
  /\ c.name = Target(cmd)
  /\ c.project = Project(cmd)
  /\ c.region = Flag(cmd, "region")
ClusterOf(cmd) ==
  [name |-> Target(cmd), project |-> Project(cmd),
   region |-> Flag(cmd, "region"), zone |-> Flag(cmd, "zone"),
   flags |-> cmd.flags]
CreateOk(cmd, cs) ==
  /\ Verb(cmd) = <<"gcloud", "dataproc", "clusters", "create">>
  /\ ~ \E c \in cs : SameCluster(c, cmd)
DataprocCreate(cmd, cs) ==
  IF CreateOk(cmd, cs) THEN cs \cup {ClusterOf(cmd)} ELSE cs

\* gcloud dataproc clusters delete: removes the named cluster of the region.
DeleteOk(cmd, cs) ==
  /\ Verb(cmd) = <<"gcloud", "dataproc", "clusters", "delete">>
  /\ \E c \in cs : SameCluster(c, cmd)
DataprocDelete(cmd, cs) ==
  IF DeleteOk(cmd, cs) THEN {c \in cs : ~ SameCluster(c, cmd)} ELSE cs

\* gcloud compute ssh: reaches the instance when a cluster's master VM of that
\* name runs in the given zone of the project.
HasInstance(cs, inst, zone, project) ==
  \E c \in cs : /\ MasterInstance(c.name) = inst
                /\ c.zone = zone
                /\ c.project = project
SshOk(cmd, cs) ==
  /\ Verb(cmd) = <<"gcloud", "compute", "ssh">>
  /\ HasInstance(cs, Target(cmd), Flag(cmd, "zone"), Project(cmd))
TunnelOf(cmd, fwd) ==
  [instance |-> Target(cmd), zone |-> Flag(cmd, "zone"),
   project |-> Project(cmd), local |-> fwd.local, remote |-> fwd.remote]

\* The Jupyter optional component listens on the master's port 8123; the
\* page loads when a forward from the URL's port to it is up and the cluster
\* was created with the component.
HasJupyter(c) ==
  \E p \in c.flags : p[1] = "optional-components" /\ p[2] = "ANACONDA,JUPYTER"
PageLoads(url, ts, cs) ==
  \E tn \in ts :
    /\ url.host = "localhost"
    /\ tn.local = url.port
    /\ tn.remote = RemotePort
    /\ \E c \in cs : MasterInstance(c.name) = tn.instance /\ HasJupyter(c)

Outcome(ok) == IF ok THEN "ok" ELSE "error"

\* Section 1, as the multi-line command.
SheetCreate ==
  /\ sheetPc = 0
  /\ clusters' = DataprocCreate(Parse(CreateCmd), clusters)
  /\ sheetLog' = Append(sheetLog, Outcome(CreateOk(Parse(CreateCmd), clusters)))
  /\ sheetPc' = 1
  /\ UNCHANGED <<tunnel, jupyter>>

\* Section 1, as the one-liner of section 2.
SheetCreateOneLiner ==
  /\ sheetPc = 0
  /\ clusters' = DataprocCreate(Parse(CreateOneLinerCmd), clusters)
  /\ sheetLog' =
       Append(sheetLog, Outcome(CreateOk(Parse(CreateOneLinerCmd), clusters)))
  /\ sheetPc' = 1
  /\ UNCHANGED <<tunnel, jupyter>>

\* Section 3: SSH Tunnel.
SheetTunnel ==
  /\ sheetPc = 1
  /\ tunnel' = IF SshOk(Parse(SshCmd), clusters)
               THEN {TunnelOf(Parse(SshCmd), SshForward)} ELSE tunnel
  /\ sheetLog' = Append(sheetLog, Outcome(SshOk(Parse(SshCmd), clusters)))
  /\ sheetPc' = 2
  /\ UNCHANGED <<clusters, jupyter>>

\* Section 4: JUPYTER NOTEBOOK.
SheetJupyter ==
  /\ sheetPc = 2
  /\ jupyter' = PageLoads(JupyterUrl, tunnel, clusters)
  /\ sheetLog' = Append(sheetLog, Outcome(PageLoads(JupyterUrl, tunnel, clusters)))
  /\ sheetPc' = 3
  /\ UNCHANGED <<clusters, tunnel>>

\* Section 5: TERMINATE CLUSTER.  The forwards into a deleted VM drop, and
\* the page served through them with it.
SheetTerminate ==
  /\ sheetPc = 3
  /\ clusters' = DataprocDelete(Parse(DeleteCmd), clusters)
  /\ tunnel' = {tn \in tunnel :
                  HasInstance(clusters', tn.instance, tn.zone, tn.project)}
  /\ jupyter' = (jupyter /\ PageLoads(JupyterUrl, tunnel', clusters'))
  /\ sheetLog' = Append(sheetLog, Outcome(DeleteOk(Parse(DeleteCmd), clusters)))
  /\ sheetPc' = 4

SheetInit ==
  /\ sheetPc = 0
  /\ sheetLog = <<>>
  /\ clusters = {}
  /\ tunnel = {}
  /\ jupyter = FALSE

(***************************************************************************)
(* PART B.  DataFrames and joins (src/unnamed/part_000:1-715)              *)
(***************************************************************************)

\* A cell of a row is Null or a one-element tuple holding the value, so that
\* Null compares with values of every type.
Null == <<>>
V(x) == <<x>>

\* A column is a name and the engine's attribute id (the #n of the plans);
\* a DataFrame is its columns and its rows in order, each row a tuple with
\* one cell per column.
Col(name, attr) == [name |-> name, attr |-> attr]
DataFrame(cols, rows) == [cols |-> cols, rows |-> rows]

\* spark.createDataFrame(rows).toDF(names): the scan takes the next n
\* attribute ids (_1#0 .. _4#3), the named columns the ids 2n later (id#8 ..
\* spark_status#11), and 4n ids are used up in all (the next DataFrame's
\* scan starts at #16).
CreateDataFrame(rows, names, base) ==
  DataFrame([i \in 1..Len(names) |-> Col(names[i], base + 2 * Len(names) + i - 1)],
            rows)
IdsUsed(names) == 4 * Len(names)

\* The literals of cell 1.
PersonNames == <<"id", "name", "graduate_program", "spark_status">>
PersonRows ==
  << << V(0), V("Bill Chambers"),    V(0), V(<<100>>) >>,
     << V(1), V("Matei Zaharia"),    V(1), V(<<500, 250, 100>>) >>,
     << V(2), V("Michael Armbrust"), V(1), V(<<250, 100>>) >> >>
GraduateProgramNames == <<"id", "degree", "department", "school">>
GraduateProgramRows ==
  << << V(0), V("Masters"), V("School of Information"), V("UC Berkeley") >>,
     << V(2), V("Masters"), V("EECS"),                  V("UC Berkeley") >>,
     << V(1), V("Ph.D."),   V("EECS"),                  V("UC Berkeley") >> >>

\* df["name"]: the attribute the name resolves to in df.  A name carried by
\* two columns is ambiguous and a name carried by none is unknown.
AttrsNamed(df, name) == {i \in 1..Len(df.cols) : df.cols[i].name = name}
Ambiguous(df, name) == Cardinality(AttrsNamed(df, name)) > 1
ColRef(df, name) == df.cols[CHOOSE i \in AttrsNamed(df, name) : TRUE].attr

\* a == b on two column references.
EqExpr(a, b) == [a |-> a, b |-> b]

\* The cell of attribute attr in a row laid out as cols.
IndexOf(cols, attr) == CHOOSE i \in 1..Len(cols) : cols[i].attr = attr
ValueOf(cols, row, attr) == row[IndexOf(cols, attr)]

\* SQL equality: a comparison with NULL is not true.
SqlEq(x, y) == x # Null /\ y # Null /\ x = y

\* A join that specifies no predicate joins every pair of rows.
NoPredicate == [always |-> TRUE]

\* The join expression evaluated on a left row and a right row.
Matches(on, left, right, l, r) ==
  IF on = NoPredicate THEN TRUE
  ELSE SqlEq(ValueOf(left.cols \o right.cols, l \o r, on.a),
             ValueOf(left.cols \o right.cols, l \o r, on.b))

NullRow(n) == [i \in 1..n |-> Null]

RECURSIVE Concat(_)
Concat(ss) == IF ss = <<>> THEN <<>> ELSE Head(ss) \o Concat(Tail(ss))

\* The right rows a left row joins, and the left rows a right row joins.
RightMatches(on, left, right, l) ==
  SelectSeq(right.rows, LAMBDA r : Matches(on, left, right, l, r))
LeftMatches(on, left, right, r) ==
  SelectSeq(left.rows, LAMBDA l : Matches(on, left, right, l, r))

\* inner: the joined pairs only.
InnerRowsKeepLeft(on, left, right) ==
  Concat([i \in 1..Len(left.rows) |->
    LET l == left.rows[i]
        m == RightMatches(on, left, right, l)
    IN IF m = <<>> THEN << l \o NullRow(Len(right.cols)) >>
       ELSE [j \in 1..Len(m) |-> l \o m[j]]])
InnerRows(on, left, right) ==
  Concat([i \in 1..Len(left.rows) |->
    LET l == left.rows[i]
        m == RightMatches(on, left, right, l)
    IN [j \in 1..Len(m) |-> l \o m[j]]])

\* left_outer: every left row, with nulls on the right when nothing joins it.
LeftOuterRowsDropUnmatched(on, left, right) == InnerRows(on, left, right)
LeftOuterRows(on, left, right) ==
  Concat([i \in 1..Len(left.rows) |->
    LET l == left.rows[i]
        m == RightMatches(on, left, right, l)
    IN IF m = <<>> THEN << l \o NullRow(Len(right.cols)) >>
       ELSE [j \in 1..Len(m) |-> l \o m[j]]])

\* right_outer: every right row, with nulls on the left when nothing joins it.
RightOuterRowsDropUnmatched(on, left, right) == InnerRows(on, left, right)
RightOuterRows(on, left, right) ==
  Concat([j \in 1..Len(right.rows) |->
    LET r == right.rows[j]
        m == LeftMatches(on, left, right, r)
    IN IF m = <<>> THEN << NullRow(Len(left.cols)) \o r >>
       ELSE [i \in 1..Len(m) |-> m[i] \o r]])

\* outer: the left outer rows, then the right rows nothing joined.
UnmatchedRight(on, left, right) ==
  SelectSeq(right.rows, LAMBDA r : LeftMatches(on, left, right, r) = <<>>)
FullOuterRowsDropRight(on, left, right) == LeftOuterRows(on, left, right)
FullOuterRows(on, left, right) ==
  LeftOuterRows(on, left, right) \o
  [k \in 1..Len(UnmatchedRight(on, left, right)) |->
     NullRow(Len(left.cols)) \o UnmatchedRight(on, left, right)[k]]

\* left_semi and left_anti: a filter on the left rows.
SemiRowsPerMatch(on, left, right) ==
  Concat([i \in 1..Len(left.rows) |->
    [j \in 1..Len(RightMatches(on, left, right, left.rows[i])) |-> left.rows[i]]])
SemiRows(on, left, right) ==
  SelectSeq(left.rows, LAMBDA l : RightMatches(on, left, right, l) # <<>>)
AntiRowsAll(on, left, right) == left.rows
AntiRows(on, left, right) ==
  SelectSeq(left.rows, LAMBDA l : RightMatches(on, left, right, l) = <<>>)

\* cross: every left row with every right row.
CrossRowsMatchedOnly(left, right) ==
  Concat([i \in 1..Len(left.rows) |->
    [j \in 1..(IF i <= Len(right.rows) THEN 1 ELSE 0) |->
       left.rows[i] \o right.rows[i]]])
CrossRows(left, right) ==
  Concat([i \in 1..Len(left.rows) |->
    [j \in 1..Len(right.rows) |-> left.rows[i] \o right.rows[j]]])

\* The join type used when join() is given no `how`.
DefaultHowOuter == "outer"
DefaultHow == "inner"

\* left.join(right, on, how)
Join(left, right, on, how) ==
  CASE how = "inner" ->
         DataFrame(left.cols \o right.cols, InnerRows(on, left, right))
    [] how = "outer" ->
         DataFrame(left.cols \o right.cols, FullOuterRows(on, left, right))
    [] how = "left_outer" ->
         DataFrame(left.cols \o right.cols, LeftOuterRows(on, left, right))
    [] how = "right_outer" ->
         DataFrame(left.cols \o right.cols, RightOuterRows(on, left, right))
    [] how = "left_semi" ->
         DataFrame(left.cols, SemiRows(on, left, right))
    [] how = "left_anti" ->
         DataFrame(left.cols, AntiRows(on, left, right))
    [] how = "cross" ->
         DataFrame(left.cols \o right.cols, CrossRows(left, right))

\* left.join(right, on)
JoinDefault(left, right, on) == Join(left, right, on, DefaultHow)

\* left.crossJoin(right)
CrossJoin(left, right) == DataFrame(left.cols \o right.cols, CrossRows(left, right))

\* df.withColumnRenamed(old, new): the column is aliased, which gives it a
\* new attribute id; a DataFrame without the column is returned as it is.
WithColumnRenamed(df, old, new, fresh) ==
  DataFrame([i \in 1..Len(df.cols) |->
               IF df.cols[i].name = old THEN Col(new, fresh) ELSE df.cols[i]],
            df.rows)

\* df.drop(col): the DataFrame without the column of that attribute.
KeepIdx(df, attr) == SelectSeq([i \in 1..Len(df.cols) |-> i],
                               LAMBDA i : df.cols[i].attr # attr)
Drop(df, attr) ==
  LET keep == KeepIdx(df, attr)
  IN DataFrame([k \in 1..Len(keep) |-> df.cols[keep[k]]],
               [n \in 1..Len(df.rows) |->
                  [k \in 1..Len(keep) |-> df.rows[n][keep[k]]]])

\* left.join(right, "name"): an inner equi-join on the column both sides
\* call `name`, which is output once, first, followed by the other columns
\* of the left and then of the right.
JoinUsing(left, right, name) ==
  LET la == ColRef(left, name)
      ra == ColRef(right, name)
      j  == Join(left, right, EqExpr(la, ra), DefaultHow)
      lrest == KeepIdx(left, la)
      rrest == KeepIdx(right, ra)
      li == IndexOf(left.cols, la)
      nl == Len(left.cols)
  IN DataFrame(
       <<left.cols[li]>> \o [k \in 1..Len(lrest) |-> left.cols[lrest[k]]]
                         \o [k \in 1..Len(rrest) |-> right.cols[rrest[k]]],
       [n \in 1..Len(j.rows) |->
          <<j.rows[n][li]>> \o [k \in 1..Len(lrest) |-> j.rows[n][lrest[k]]]
                            \o [k \in 1..Len(rrest) |-> j.rows[n][nl + rrest[k]]]])

\* df.show(): the column names and the rows.  (The 20-character truncation
\* of show() shortens only the display of "School of Information".)
Show(df) == [kind |-> "table", errors |-> {},
             names |-> [i \in 1..Len(df.cols) |-> df.cols[i].name],
             rows |-> df.rows]

\* df.select("name"): an AnalysisException when the name is ambiguous.
SelectError(df, name) ==
  IF Ambiguous(df, name)
  THEN {[exception |-> "AnalysisException", cause |-> "ambiguous reference",
         name |-> name]}
  ELSE {}

\* The physical plan of an inner equi-join.  A broadcast hint on the right
\* side makes it a broadcast hash join built on the right; without a hint
\* the DataFrames made from local rows carry no size estimate below the
\* broadcast threshold and the join is a sort-merge join.
ScanPipeline(df, key) ==
  << [node |-> "Project", attrs |-> [i \in 1..Len(df.cols) |-> df.cols[i].attr]],
     [node |-> "Filter", attrs |-> <<key>>],
     [node |-> "Scan ExistingRDD",
      attrs |-> [i \in 1..Len(df.cols) |-> df.cols[i].attr - 2 * Len(df.cols)]] >>
ShufflePartitions == 200
SortMergeChildUnsorted(df, key) ==
  << [node |-> "Exchange hashpartitioning", attrs |-> <<key>>,
      partitions |-> ShufflePartitions] >>
  \o ScanPipeline(df, key)
SortMergeChild(df, key) ==
  << [node |-> "Sort", attrs |-> <<key>>],
     [node |-> "Exchange hashpartitioning", attrs |-> <<key>>,
      partitions |-> ShufflePartitions] >>
  \o ScanPipeline(df, key)
BroadcastChildShuffled(df, key) ==
  << [node |-> "BroadcastExchange", attrs |-> <<key>>],
     [node |-> "Exchange hashpartitioning", attrs |-> <<key>>,
      partitions |-> ShufflePartitions] >>
  \o ScanPipeline(df, key)
BroadcastChild(df, key) ==
  << [node |-> "BroadcastExchange", attrs |-> <<key>>] >> \o ScanPipeline(df, key)
KeyOf(on, df) ==
  IF \E i \in 1..Len(df.cols) : df.cols[i].attr = on.a THEN on.a ELSE on.b
Explain(left, right, on, hintRight) ==
  IF hintRight
  THEN [kind |-> "plan", errors |-> {},
        node |-> "BroadcastHashJoin", joinType |-> "Inner", build |-> "BuildRight",
        leftKeys |-> <<KeyOf(on, left)>>, rightKeys |-> <<KeyOf(on, right)>>,
        left |-> ScanPipeline(left, KeyOf(on, left)),
        right |-> BroadcastChild(right, KeyOf(on, right))]
  ELSE [kind |-> "plan", errors |-> {},
        node |-> "SortMergeJoin", joinType |-> "Inner", build |-> "",
        leftKeys |-> <<KeyOf(on, left)>>, rightKeys |-> <<KeyOf(on, right)>>,
        left |-> SortMergeChild(left, KeyOf(on, left)),
        right |-> SortMergeChild(right, KeyOf(on, right))]

(***************************************************************************)
(* PART C.  The joins notebook, run cell by cell                           *)
(***************************************************************************)

\* The execution_count recorded on each code cell, in document order.
JoinsRecordedCounts == <<1, 2, 3, 4, 5, 6, 7, 8, 9, 10, 11, 12, 13, 14, 15, 16, 17>>
JoinsCells == Len(JoinsRecordedCounts)

\* The error the text after code cell 12 shows, for the command
\* df.select("graduate_program").show() that it quotes.
JoinsTextError ==
  [after |-> 12, df |-> "df", select |-> "graduate_program",
   error |-> [exception |-> "AnalysisException", cause |-> "ambiguous reference",
              name |-> "graduate_program"]]

\* name = value in the kernel.
Bind(env, name, val) == (name :> val) @@ env

\* A fresh session: no temp view, attribute ids from 0.
NewSession == [views |-> <<>>, nextId |-> 0]

\* Cell 1: the two DataFrames are made from rows and shown.
JoinsCell1(pRows, gRows, env, sess) ==
  LET p == CreateDataFrame(pRows, PersonNames, sess.nextId)
      g == CreateDataFrame(gRows, GraduateProgramNames,
                           sess.nextId + IdsUsed(PersonNames))
  IN [env |-> Bind(Bind(env, "person", p), "graduateProgram", g),
      sess |-> [sess EXCEPT !.nextId =
                  @ + IdsUsed(PersonNames) + IdsUsed(GraduateProgramNames)],
      out |-> <<Show(p), Show(g)>>]

\* person["graduate_program"] == graduateProgram['id'], which cells 5 to 10
\* and 16, 17 write out again in place of joinExpression.
KeyExpr(env) ==
  EqExpr(ColRef(env.person, "graduate_program"), ColRef(env.graduateProgram, "id"))

\* Cells 2 to 17.
JoinsCell(i, env, sess) ==
  LET same(out) == [env |-> env, sess |-> sess, out |-> out]
  IN CASE i = 2 ->
         [env |-> env,
          sess |-> [sess EXCEPT !.views =
                      Bind(Bind(@, "person", env.person),
                           "graduateProgram", env.graduateProgram)],
          out |-> <<>>]
    [] i = 3 ->
         [env |-> Bind(env, "joinExpression", KeyExpr(env)),
          sess |-> sess, out |-> <<>>]
    [] i = 4 ->
         same(<<Show(JoinDefault(env.person, env.graduateProgram,
                                 env.joinExpression))>>)
    [] i = 5 ->
         same(<<Show(Join(env.person, env.graduateProgram, KeyExpr(env), "inner"))>>)
    [] i = 6 ->
         same(<<Show(Join(env.person, env.graduateProgram, KeyExpr(env), "outer"))>>)
    [] i = 7 ->
         same(<<Show(Join(env.graduateProgram, env.person, KeyExpr(env),
                          "left_outer"))>>)
    [] i = 8 ->
         same(<<Show(Join(env.person, env.graduateProgram, KeyExpr(env),
                          "right_outer"))>>)
    [] i = 9 ->
         same(<<Show(Join(env.graduateProgram, env.person, KeyExpr(env),
                          "left_semi"))>>)
    [] i = 10 ->
         same(<<Show(Join(env.graduateProgram, env.person, KeyExpr(env),
                          "left_anti"))>>)
    [] i = 11 ->
         same(<<Show(CrossJoin(env.person, env.graduateProgram))>>)
    [] i = 12 ->
         LET dupe == WithColumnRenamed(env.graduateProgram, "id",
                                       "graduate_program", sess.nextId)
             df == Join(env.person, dupe,
                        EqExpr(ColRef(env.person, "graduate_program"),
                               ColRef(dupe, "graduate_program")), "inner")
         IN [env |-> Bind(Bind(env, "gradProgramDupe", dupe), "df", df),
             sess |-> [sess EXCEPT !.nextId = @ + 1],
             out |-> <<Show(df)>>]
    [] i = 13 ->
         same(<<Show(JoinUsing(env.person, env.gradProgramDupe,
                               "graduate_program"))>>)
    [] i = 14 ->
         same(<<Show(Drop(JoinDefault(env.person, env.gradProgramDupe,
                            EqExpr(ColRef(env.person, "graduate_program"),
                                   ColRef(env.gradProgramDupe, "graduate_program"))),
                          ColRef(env.person, "graduate_program")))>>)
    [] i = 15 ->
         LET g3 == WithColumnRenamed(env.graduateProgram, "id", "grad_id",
                                     sess.nextId)
         IN [env |-> Bind(env, "gradProgram3", g3),
             sess |-> [sess EXCEPT !.nextId = @ + 1],
             out |-> <<Show(JoinDefault(env.person, g3,
                          EqExpr(ColRef(env.person, "graduate_program"),
                                 ColRef(g3, "grad_id"))))>>]
    [] i = 16 ->
         same(<<Explain(env.person, env.graduateProgram, KeyExpr(env), FALSE)>>)
    [] i = 17 ->
         same(<<Explain(env.person, env.graduateProgram, KeyExpr(env), TRUE)>>)

\* The kernel runs the next code cell: the execution counter goes up by one
\* and is stamped on the cell with its output.
NextCountSkipping(n) == n + 2
NextCount(n) == n + 1

RunJoinsCell ==
  /\ jupyter
  /\ joinsPc < JoinsCells
  /\ LET i == joinsPc + 1
         r == IF i = 1
              THEN JoinsCell1(PersonRows, GraduateProgramRows, joinsEnv, joinsSession)
              ELSE JoinsCell(i, joinsEnv, joinsSession)
     IN /\ joinsEnv' = r.env
        /\ joinsSession' = r.sess
        /\ joinsOut' = Append(joinsOut, r.out)
  /\ joinsCount' = NextCount(joinsCount)
  /\ joinsStamp' = Append(joinsStamp, joinsCount')
  /\ joinsPc' = joinsPc + 1

JoinsInit ==
  /\ joinsEnv = <<>>
  /\ joinsSession = NewSession
  /\ joinsPc = 0
  /\ joinsCount = 0
  /\ joinsStamp = <<>>
  /\ joinsOut = <<>>

(***************************************************************************)
(* PART D.  The Spark SQL notebook                                         *)
(* (src/docs/Supplementary-Materials/01-Spark-SQL.ipynb)                   *)
(***************************************************************************)

\* The execution_count recorded on each code cell, in document order.
SqlRecordedCounts ==
  <<1, 2, 3, 4, 5, 6, 7, 8, 9, 10, 11, 12, 13, 14, 15, 16, 17, 18, 19, 20>>
SqlCells == Len(SqlRecordedCounts)

\* The schema spark.read.json infers for the flight summary file.
FlightsSchema ==
  << [name |-> "DEST_COUNTRY_NAME", dataType |-> "string"],
     [name |-> "ORIGIN_COUNTRY_NAME", dataType |-> "string"],
     [name |-> "count", dataType |-> "bigint"] >>

\* Catalog entries.  A temp view belongs to the session and to no database.
TempViewEntry(name, schema) ==
  [name |-> name, database |-> Null, description |-> Null,
   tableType |-> "TEMPORARY", isTemporary |-> TRUE, schema |-> schema]
TableEntryExternal(name, schema) ==
  [name |-> name, database |-> V("default"), description |-> Null,
   tableType |-> "EXTERNAL", isTemporary |-> FALSE, schema |-> schema]
TableEntry(name, schema) ==
  [name |-> name, database |-> V("default"), description |-> Null,
   tableType |-> "MANAGED", isTemporary |-> FALSE, schema |-> schema]
ViewEntry(name, schema) ==
  [name |-> name, database |-> V("default"), description |-> Null,
   tableType |-> "VIEW", isTemporary |-> FALSE, schema |-> schema]

\* The catalog of a new session: the default database and nothing in it.
NewCatalog ==
  [databases |-> << [name |-> "default", description |-> "Default Hive database",
                     locationUri |-> "hdfs://bigcluster-m/user/hive/warehouse"] >>,
   tables |-> <<>>,
   temps |-> <<>>]

Has(entries, name) == \E i \in 1..Len(entries) : entries[i].name = name
Without(entries, name) == SelectSeq(entries, LAMBDA e : e.name # name)
Entry(entries, name) == entries[CHOOSE i \in 1..Len(entries) : entries[i].name = name]

\* A name in a query: the session's temp view of that name, else the table
\* or view of the current database.
Exists(cat, name) == Has(cat.temps, name) \/ Has(cat.tables, name)
Lookup(cat, name) ==
  IF Has(cat.temps, name) THEN Entry(cat.temps, name) ELSE Entry(cat.tables, name)

NotFound(name) ==
  [exception |-> "AnalysisException", cause |-> "Table or view not found",
   name |-> name]
AlreadyExists(name) ==
  [exception |-> "AnalysisException", cause |-> "Table or view already exists",
   name |-> name]
WrongKind(name) ==
  [exception |-> "AnalysisException", cause |-> "Cannot drop with this statement",
   name |-> name]

\* What a statement does: the catalog and the cache after it, what it
\* displays, and the exception it raises (none or one).
Done(cat, cch, out) == [catalog |-> cat, cached |-> cch, out |-> out, raised |-> {}]
Raise(cat, cch, e) ==
  [catalog |-> cat, cached |-> cch,
   out |-> << [kind |-> "error", errors |-> {e}] >>, raised |-> {e}]

EmptyDataFrame == [kind |-> "value", errors |-> {}, repr |-> "DataFrame[]"]

CreateOrAppendTempView(cat, cch, name, schema) ==
  Done([cat EXCEPT !.temps = Append(@, TempViewEntry(name, schema))], cch, <<>>)

\* df.createOrReplaceTempView(name)
CreateOrReplaceTempView(cat, cch, name, schema) ==
  Done([cat EXCEPT !.temps = Append(Without(@, name), TempViewEntry(name, schema))],
       cch, <<>>)

CreateTableAsSelectNoColumns(cat, cch, name, ifNotExists, src) ==
  IF Has(cat.tables, name)
  THEN IF ifNotExists THEN Done(cat, cch, <<EmptyDataFrame>>)
       ELSE Raise(cat, cch, AlreadyExists(name))
  ELSE IF ~ Exists(cat, src) THEN Raise(cat, cch, NotFound(src))
  ELSE Done([cat EXCEPT !.tables = Append(@, TableEntry(name, <<>>))],
            cch, <<EmptyDataFrame>>)

\* CREATE TABLE [IF NOT EXISTS] name USING parquet AS SELECT * FROM src
CreateTableAsSelect(cat, cch, name, ifNotExists, src) ==
  IF Has(cat.tables, name)
  THEN IF ifNotExists THEN Done(cat, cch, <<EmptyDataFrame>>)
       ELSE Raise(cat, cch, AlreadyExists(name))
  ELSE IF ~ Exists(cat, src) THEN Raise(cat, cch, NotFound(src))
  ELSE Done([cat EXCEPT !.tables =
               Append(@, TableEntry(name, Lookup(cat, src).schema))],
            cch, <<EmptyDataFrame>>)

\* SELECT ... FROM src: the rows come from data outside the repository, so
\* the result is kept as its columns and its source.
SelectFrom(cat, cch, src, names) ==
  IF ~ Exists(cat, src) THEN Raise(cat, cch, NotFound(src))
  ELSE Done(cat, cch, << [kind |-> "query", errors |-> {}, from |-> src,
                          names |-> names] >>)
SchemaNames(schema) == [i \in 1..Len(schema) |-> schema[i].name]

\* DESCRIBE TABLE name
DescribeTable(cat, cch, name) ==
  IF ~ Exists(cat, name) THEN Raise(cat, cch, NotFound(name))
  ELSE LET sch == Lookup(cat, name).schema
       IN Done(cat, cch,
               << [kind |-> "table", errors |-> {},
                   names |-> <<"col_name", "data_type", "comment">>,
                   rows |-> [i \in 1..Len(sch) |->
                               <<V(sch[i].name), V(sch[i].dataType), Null>>]] >>)

\* Cat.listTables(): the tables of the current database, then the temp views.
ListTables(cat) ==
  LET all == cat.tables \o cat.temps
  IN [i \in 1..Len(all) |->
        [name |-> all[i].name, database |-> all[i].database,
         description |-> all[i].description, tableType |-> all[i].tableType,
         isTemporary |-> all[i].isTemporary]]

ShowTablesNoTemps(cat) ==
  [kind |-> "table", errors |-> {},
   names |-> <<"database", "tableName", "isTemporary">>,
   rows |-> [i \in 1..Len(cat.tables) |->
               << cat.tables[i].database, V(cat.tables[i].name),
                  V(cat.tables[i].isTemporary) >>]]

\* SHOW TABLES: database, tableName, isTemporary; no database shows as "".
ShowTables(cat) ==
  LET all == cat.tables \o cat.temps
  IN [kind |-> "table", errors |-> {},
      names |-> <<"database", "tableName", "isTemporary">>,
      rows |-> [i \in 1..Len(all) |->
                  << IF all[i].database = Null THEN V("") ELSE all[i].database,
                     V(all[i].name), V(all[i].isTemporary) >>]]

\* Cat.listDatabases() and SHOW DATABASES
ListDatabases(cat) == cat.databases
ShowDatabases(cat) ==
  [kind |-> "table", errors |-> {}, names |-> <<"databaseName">>,
   rows |-> [i \in 1..Len(cat.databases) |-> <<V(cat.databases[i].name)>>]]

ListColumnsForgetting(cat, cch, name) ==
  IF ~ Exists(cat, name) THEN Raise(cat, cch, NotFound(name))
  ELSE Done([cat EXCEPT !.temps = <<>>], cch, <<EmptyDataFrame>>)

\* Cat.listColumns(name)
ListColumns(cat, cch, name) ==
  IF ~ Exists(cat, name) THEN Raise(cat, cch, NotFound(name))
  ELSE LET sch == Lookup(cat, name).schema
       IN Done(cat, cch,
               << [kind |-> "value", errors |-> {},
                   repr |-> [i \in 1..Len(sch) |->
                     [name |-> sch[i].name, description |-> Null,
                      dataType |-> sch[i].dataType, nullable |-> TRUE,
                      isPartition |-> FALSE, isBucket |-> FALSE]]] >>)

UncacheTableKeeping(cat, cch, name) ==
  IF ~ Exists(cat, name) THEN Raise(cat, cch, NotFound(name))
  ELSE Done(cat, cch, <<EmptyDataFrame>>)

\* CACHE TABLE name / UNCACHE TABLE name
CacheTable(cat, cch, name) ==
  IF ~ Exists(cat, name) THEN Raise(cat, cch, NotFound(name))
  ELSE Done(cat, cch \cup {name}, <<EmptyDataFrame>>)
UncacheTable(cat, cch, name) ==
  IF ~ Exists(cat, name) THEN Raise(cat, cch, NotFound(name))
  ELSE Done(cat, cch \ {name}, <<EmptyDataFrame>>)

\* EXPLAIN SELECT * FROM src: a failure of the analysis is caught and
\* returned as the text of the plan row; nothing is raised.
ExplainSelectSilent(cat, cch, src) ==
  Done(cat, cch, << [kind |-> "table", errors |-> {}, names |-> <<"plan">>,
                     rows |-> << <<V("== Physical Plan ==")>> >>] >>)
ExplainSelectRaising(cat, cch, src) ==
  IF ~ Exists(cat, src) THEN Raise(cat, cch, NotFound(src))
  ELSE Done(cat, cch, << [kind |-> "table", errors |-> {}, names |-> <<"plan">>,
                          rows |-> << <<V("== Physical Plan ==")>> >>] >>)
ExplainSelect(cat, cch, src) ==
  Done(cat, cch,
       << [kind |-> "table",
           errors |-> IF Exists(cat, src) THEN {} ELSE {NotFound(src)},
           names |-> <<"plan">>,
           rows |-> << <<V("== Physical Plan ==")>> >>] >>)

\* CREATE VIEW name AS SELECT * FROM src WHERE ...
CreateView(cat, cch, name, src) ==
  IF Has(cat.tables, name) THEN Raise(cat, cch, AlreadyExists(name))
  ELSE IF ~ Exists(cat, src) THEN Raise(cat, cch, NotFound(src))
  ELSE Done([cat EXCEPT !.tables =
               Append(@, ViewEntry(name, Lookup(cat, src).schema))],
            cch, <<EmptyDataFrame>>)

DropRelationKeepingViews(cat, cch, name, ifExists, isView) ==
  IF isView THEN Done(cat, cch, <<EmptyDataFrame>>)
  ELSE IF Has(cat.tables, name)
  THEN Done([cat EXCEPT !.tables = Without(@, name)], cch \ {name},
            <<EmptyDataFrame>>)
  ELSE IF ifExists THEN Done(cat, cch, <<EmptyDataFrame>>)
  ELSE Raise(cat, cch, NotFound(name))
DropRelationStrict(cat, cch, name, ifExists, isView) ==
  IF Has(cat.temps, name)
  THEN Done([cat EXCEPT !.temps = Without(@, name)], cch \ {name},
            <<EmptyDataFrame>>)
  ELSE IF Has(cat.tables, name)
  THEN Done([cat EXCEPT !.tables = Without(@, name)], cch \ {name},
            <<EmptyDataFrame>>)
  ELSE Raise(cat, cch, NotFound(name))

\* DROP TABLE [IF EXISTS] name (isView = FALSE) and DROP VIEW [IF EXISTS] name
\* (isView = TRUE).  A temp view of the name is what the statement drops;
\* else the table or view of the database, which must be of the stated kind.
DropRelation(cat, cch, name, ifExists, isView) ==
  IF Has(cat.temps, name)
  THEN Done([cat EXCEPT !.temps = Without(@, name)], cch \ {name},
            <<EmptyDataFrame>>)
  ELSE IF Has(cat.tables, name)
  THEN IF (Entry(cat.tables, name).tableType = "VIEW") # isView
       THEN Raise(cat, cch, WrongKind(name))
       ELSE Done([cat EXCEPT !.tables = Without(@, name)], cch \ {name},
                 <<EmptyDataFrame>>)
  ELSE IF ifExists THEN Done(cat, cch, <<EmptyDataFrame>>)
  ELSE Raise(cat, cch, NotFound(name))

\* The bucket the cluster was created with, which cell 2 reads from the
\* Hadoop configuration (fs.gs.system.bucket).
SystemBucket(cs) == Flag([flags |-> (CHOOSE c \in cs : TRUE).flags], "bucket")

\* The code cells, 1 to 20.
SqlCell(i, env, cat, cch, cs) ==
  LET keep(r) == [env |-> env, r |-> r]
  IN CASE i = 1 ->
         keep(Done(cat, cch, << [kind |-> "table", errors |-> {},
                                 names |-> <<"(1 + 1)">>,
                                 rows |-> << <<V(1 + 1)>> >>] >>))
    [] i = 2 ->
         [env |-> Bind(Bind(env, "bucket", SystemBucket(cs)), "data",
                       "gs://" \o SystemBucket(cs) \o "/notebooks/data/"),
          r |-> CreateOrReplaceTempView(cat, cch, "flights_view", FlightsSchema)]
    [] i = 3 ->
         keep(SelectFrom(cat, cch, "flights_view",
                         <<"DEST_COUNTRY_NAME", "sum(count)">>))
    [] i = 4 ->
         keep(CreateTableAsSelect(cat, cch, "flights_from_select", TRUE,
                                  "flights_view"))
    [] i = 5 ->
         keep(IF Exists(cat, "flights_from_select")
              THEN SelectFrom(cat, cch, "flights_from_select",
                              SchemaNames(Lookup(cat, "flights_from_select").schema))
              ELSE Raise(cat, cch, NotFound("flights_from_select")))
    [] i = 6 -> keep(DescribeTable(cat, cch, "flights_from_select"))
    [] i = 7 -> [env |-> Bind(env, "Cat", "spark.catalog"),
                 r |-> Done(cat, cch, <<>>)]
    [] i = 8 -> keep(Done(cat, cch, << [kind |-> "value", errors |-> {},
                                        repr |-> ListTables(cat)] >>))
    [] i = 9 -> keep(Done(cat, cch, <<ShowTables(cat)>>))
    [] i = 10 -> keep(Done(cat, cch, << [kind |-> "value", errors |-> {},
                                         repr |-> ListDatabases(cat)] >>))
    [] i = 11 -> keep(Done(cat, cch, <<ShowDatabases(cat)>>))
    [] i = 12 -> keep(ListColumns(cat, cch, "flights_from_select"))
    [] i = 13 -> keep(Done(cat, cch, << [kind |-> "value", errors |-> {},
                                         repr |-> ListTables(cat)] >>))
    [] i = 14 -> keep(CacheTable(cat, cch, "flights_view"))
    [] i = 15 -> keep(UncacheTable(cat, cch, "flights_view"))
    [] i = 16 -> keep(ExplainSelect(cat, cch, "just_usa_view"))
    [] i = 17 -> keep(CreateView(cat, cch, "just_usa_view", "flights_from_select"))
    [] i = 18 -> keep(DropRelation(cat, cch, "just_usa_view", TRUE, TRUE))
    [] i = 19 -> keep(DropRelation(cat, cch, "flights_from_select", FALSE, FALSE))
    [] i = 20 -> keep(DropRelation(cat, cch, "flights_from_select", TRUE, FALSE))

\* The kernel runs the next code cell.  A cell that raises shows the
\* exception as its output and the run stops there.
\* A cell that is run again shows its new output and its new execution count
\* in place of the old ones; the cells below it keep theirs until they run.
Put(seq, i, x) == IF i <= Len(seq) THEN [seq EXCEPT ![i] = x] ELSE Append(seq, x)

RunSqlCell ==
  /\ jupyter
  /\ ~ sqlHalted
  /\ sqlPc < SqlCells
  /\ LET c == SqlCell(sqlPc + 1, sqlEnv, catalog, cached, clusters)
     IN /\ sqlEnv' = c.env
        /\ catalog' = c.r.catalog
        /\ cached' = c.r.cached
        /\ sqlOut' = Put(sqlOut, sqlPc + 1, c.r.out)
        /\ sqlHalted' = (c.r.raised # {})
        /\ sqlLog' = Append(sqlLog, [run |-> sqlRun, cell |-> sqlPc + 1,
                                     catalog |-> c.r.catalog,
                                     cached |-> c.r.cached,
                                     out |-> c.r.out, raised |-> c.r.raised])
  /\ sqlCount' = NextCount(sqlCount)
  /\ sqlStamp' = Put(sqlStamp, sqlPc + 1, sqlCount')
  /\ sqlPc' = sqlPc + 1
  /\ sqlRun' = sqlRun

\* After the last cell the notebook is run again from the top, in the same
\* kernel and the same Spark session: variables, catalog, cache and
\* execution counter stay as they are.
MaxRuns == 2
RunSqlAgain ==
  /\ jupyter
  /\ ~ sqlHalted
  /\ sqlPc = SqlCells
  /\ sqlRun < MaxRuns
  /\ sqlPc' = 0
  /\ sqlRun' = sqlRun + 1
  /\ UNCHANGED <<sqlCount, sqlStamp, sqlOut, sqlHalted, sqlLog, sqlEnv, catalog,
                 cached>>

SqlInit ==
  /\ sqlEnv = <<>>
  /\ catalog = NewCatalog
  /\ cached = {}
  /\ sqlPc = 0
  /\ sqlCount = 0
  /\ sqlStamp = <<>>
  /\ sqlOut = <<>>
  /\ sqlHalted = FALSE
  /\ sqlRun = 1
  /\ sqlLog = <<>>

(***************************************************************************)
(* The specifications                                                      *)
(***************************************************************************)

Init == SheetInit /\ JoinsInit /\ SqlInit

Next ==
  \/ SheetCreate /\ UNCHANGED <<joinsVars, sqlVars>>
  \/ SheetCreateOneLiner /\ UNCHANGED <<joinsVars, sqlVars>>
  \/ SheetTunnel /\ UNCHANGED <<joinsVars, sqlVars>>
  \/ SheetJupyter /\ UNCHANGED <<joinsVars, sqlVars>>
  \/ SheetTerminate /\ UNCHANGED <<joinsVars, sqlVars>>
  \/ RunJoinsCell /\ UNCHANGED <<sheetVars, sqlVars>>
  \/ RunSqlCell /\ UNCHANGED <<sheetVars, joinsVars>>

Spec == Init /\ [][Next]_vars

\* The same, with the Spark SQL notebook run again from the top up to MaxRuns
\* times in all.
NextRerun ==
  \/ Next
  \/ RunSqlAgain /\ UNCHANGED <<sheetVars, joinsVars>>

SpecRerun == Init /\ [][NextRerun]_vars

\* The join cells on drawn inputs: person and graduateProgram are the rows of
\* cell 1 with the join keys replaced by every sequence of at most MaxRows
\* keys out of NULL, 0 and 1 (a key that is missing, one that one person has
\* and one that two persons share in cell 1); the literal rows of cell 1 are
\* always among them, and so is each drawn DataFrame with its last row
\* repeated (a DataFrame is a bag of rows).  The run starts after cell 1,
\* in the Jupyter of a cluster made by the sheet, and executes cells 2 to 17.
MaxRows == 2
Keys == {Null, V(0), V(1)}
KeySeqs == UNION {[1..n -> Keys] : n \in 0..MaxRows}
PersonRowsWith(ks) ==
  [i \in 1..Len(ks) |->
     LET t == PersonRows[((i - 1) % Len(PersonRows)) + 1]
     IN <<V(i - 1), t[2], ks[i], t[4]>>]
GraduateProgramRowsWith(ks) ==
  [i \in 1..Len(ks) |->
     LET t == GraduateProgramRows[((i - 1) % Len(GraduateProgramRows)) + 1]
     IN <<ks[i], t[2], t[3], t[4]>>]
WithRepeat(rows) == rows \o <<rows[Len(rows)]>>
InputPersonRows ==
  {PersonRowsWith(ks) : ks \in KeySeqs}
    \cup {WithRepeat(PersonRowsWith(ks)) : ks \in KeySeqs \ {<<>>}}
    \cup {PersonRows}
InputGraduateProgramRows ==
  {GraduateProgramRowsWith(ks) : ks \in KeySeqs}
    \cup {WithRepeat(GraduateProgramRowsWith(ks)) : ks \in KeySeqs \ {<<>>}}
    \cup {GraduateProgramRows}

InitJoin ==
  /\ sheetPc = 3
  /\ sheetLog = <<"ok", "ok", "ok">>
  /\ clusters = {ClusterOf(Parse(CreateCmd))}
  /\ tunnel = {TunnelOf(Parse(SshCmd), SshForward)}
  /\ jupyter = TRUE
  /\ SqlInit
  /\ \E pRows \in InputPersonRows, gRows \in InputGraduateProgramRows :
       LET r == JoinsCell1(pRows, gRows, <<>>, NewSession)
       IN /\ joinsEnv = r.env
          /\ joinsSession = r.sess
          /\ joinsOut = <<r.out>>
  /\ joinsPc = 1
  /\ joinsCount = 1
  /\ joinsStamp = <<1>>

NextJoin == RunJoinsCell /\ UNCHANGED <<sheetVars, sqlVars>>

SpecJoin == InitJoin /\ [][NextJoin]_vars

(***************************************************************************)
(* The claims                                                              *)
(***************************************************************************)

\* What holds in every state of the sheet's run, and at every notebook step.
C1_State ==
  /\ \A tn \in tunnel : HasInstance(clusters, tn.instance, tn.zone, tn.project)
  /\ jupyter => (clusters # {} /\ tunnel # {})
  /\ \A c \in clusters :
       /\ c.name = Target(Parse(DeleteCmd))
       /\ c.region = Flag(Parse(DeleteCmd), "region")
  /\ sheetPc = 4 => clusters = {}
C1_Step ==
  (joinsPc' # joinsPc \/ sqlPc' # sqlPc) => (clusters # {} /\ clusters' # {})

\* C1: run in the written order, the sheet's tunnel and Jupyter page are up
\* only while the cluster exists and notebook cells run only then; every
\* cluster the sheet made has the name and the region the delete command
\* names; and after the last command no cluster is left.
C1_SheetOrder == [] C1_State /\ [][C1_Step]_vars
C1_Witness ==
  /\ sheetPc = 4
  /\ sheetLog = <<"ok", "ok", "ok", "ok">>
  /\ clusters = {}
  /\ joinsPc > 0
  /\ sqlPc > 0

\* C2: the one-liner carries the flags and values of the multi-line command,
\* so the cluster made is the same whichever of the two is run.
C2_SameCommand ==
  \A c \in clusters :
    /\ c = ClusterOf(Parse(CreateCmd))
    /\ c = ClusterOf(Parse(CreateOneLinerCmd))

\* The errors on display: those inside the outputs of the executed cells, and
\* the one the joins notebook's text quotes once the run has passed it.
OutputErrors(outs) ==
  UNION {outs[i][k].errors : <<i, k>> \in
           {<<i, k>> \in (1..Len(outs)) \X (1..2) : k <= Len(outs[i])}}
CellsWithErrors(outs) ==
  {i \in 1..Len(outs) : \E k \in 1..Len(outs[i]) : outs[i][k].errors # {}}
TextErrors ==
  IF joinsPc >= JoinsTextError.after THEN {JoinsTextError.error} ELSE {}
ErrorsShown == OutputErrors(joinsOut) \cup OutputErrors(sqlOut) \cup TextErrors
BothDone == joinsPc = JoinsCells /\ sqlPc = SqlCells

\* C3 as stated: across the notebooks exactly one error is shown, the
\* AnalysisException of the missing view.
C3_OneError ==
  BothDone => ErrorsShown = {NotFound("just_usa_view")}

\* C3 amended: two errors are shown.  The only one in a cell's output is the
\* missing view's AnalysisException, in cell 16 of the Spark SQL notebook;
\* the other is the ambiguous-reference AnalysisException that the joins
\* notebook quotes in its text for df.select("graduate_program"), which is
\* the error that select gives on the df of cell 12.
C3_TwoErrors ==
  /\ CellsWithErrors(joinsOut) = {}
  /\ CellsWithErrors(sqlOut) = {16} \cap (1..sqlPc)
  /\ OutputErrors(sqlOut) \subseteq {NotFound("just_usa_view")}
  /\ joinsPc >= JoinsTextError.after =>
       SelectError(joinsEnv[JoinsTextError.df], JoinsTextError.select)
         = {JoinsTextError.error}
  /\ BothDone =>
       ErrorsShown = {NotFound("just_usa_view"), JoinsTextError.error}
C3_Witness ==
  /\ BothDone
  /\ Cardinality(ErrorsShown) = 2
  /\ OutputErrors(sqlOut) = {NotFound("just_usa_view")}

\* The step of cell 16, and what holds in every state of the run.
C4_ExplainStep ==
  (sqlPc = 15 /\ sqlPc' = 16) =>
    /\ ~ Exists(catalog, "just_usa_view")
    /\ catalog' = catalog
    /\ cached' = cached
    /\ ~ sqlHalted'
    /\ Len(sqlOut'[16]) = 1
    /\ sqlOut'[16][1].kind = "table"
    /\ sqlOut'[16][1].names = <<"plan">>
    /\ sqlOut'[16][1].errors = {NotFound("just_usa_view")}
C4_State ==
  /\ Exists(catalog, "just_usa_view") => sqlPc = 17
  /\ ~ sqlHalted

\* C4: when the EXPLAIN cell (16) runs, the catalog has no just_usa_view
\* (the view exists only between cells 17 and 18); the statement leaves the
\* catalog and the cache as they were, its output is the plan row holding the
\* AnalysisException 'Table or view not found', nothing is raised, and the
\* run is not stopped.
C4_ExplainReportsMissingView == [] C4_State /\ [][C4_ExplainStep]_vars
C4_Witness ==
  /\ sqlPc = SqlCells
  /\ ~ sqlHalted
  /\ sqlOut[16][1].errors = {NotFound("just_usa_view")}
  /\ Len(sqlOut) = SqlCells

\* C5: in each notebook the cells run once each in document order from a
\* fresh kernel: the count stamped on the i-th code cell is i, which is the
\* execution_count recorded on it (1..17 and 1..20).
C5_SequentialRuns ==
  /\ Len(JoinsRecordedCounts) = 17
  /\ Len(SqlRecordedCounts) = 20
  /\ Len(joinsStamp) = joinsPc /\ joinsCount = joinsPc
  /\ Len(sqlStamp) = sqlPc /\ sqlCount = sqlPc
  /\ \A i \in 1..joinsPc : joinsStamp[i] = i /\ JoinsRecordedCounts[i] = i
  /\ \A i \in 1..sqlPc : sqlStamp[i] = i /\ SqlRecordedCounts[i] = i
C5_Witness ==
  /\ BothDone
  /\ joinsStamp = JoinsRecordedCounts
  /\ sqlStamp = SqlRecordedCounts

\* The inputs and outputs of the join cells, for the claims below: P and G are
\* the rows of person and graduateProgram, Rows(i) what cell i shows.
P == joinsEnv.person.rows
G == joinsEnv.graduateProgram.rows
PIdx == 1..Len(P)
GIdx == 1..Len(G)
Rows(i) == joinsOut[i][1].rows
Names(i) == joinsOut[i][1].names
PWidth == Len(PersonNames)
GWidth == Len(GraduateProgramNames)
PNulls == [k \in 1..PWidth |-> Null]
GNulls == [k \in 1..GWidth |-> Null]

\* person.graduate_program = graduateProgram.id on rows i of P and j of G,
\* as SQL compares: NULL equals nothing.
Pair(i, j) == P[i][3] # Null /\ P[i][3] = G[j][1]
Pairs == {ij \in PIdx \X GIdx : Pair(ij[1], ij[2])}
LonePs == {i \in PIdx : ~ \E j \in GIdx : Pair(i, j)}
LoneGs == {j \in GIdx : ~ \E i \in PIdx : Pair(i, j)}
Count(rows, x) == Cardinality({k \in 1..Len(rows) : rows[k] = x})
Literals == P = PersonRows /\ G = GraduateProgramRows

\* C6: the inner equi-join of person with graduateProgram (cell 4) has the
\* columns of person followed by those of graduateProgram and, as a bag,
\* exactly one row p ++ g for every pair of rows with p.graduate_program =
\* g.id and no other row; a row of either side that no row of the other side
\* matches is in no result row.
C6_InnerJoin ==
  joinsPc >= 4 =>
    /\ Names(4) = PersonNames \o GraduateProgramNames
    /\ Len(Rows(4)) = Cardinality(Pairs)
    /\ \A ij \in Pairs :
         Count(Rows(4), P[ij[1]] \o G[ij[2]]) =
           Cardinality({ab \in Pairs : P[ab[1]] \o G[ab[2]] = P[ij[1]] \o G[ij[2]]})
    /\ \A k \in 1..Len(Rows(4)) :
         \E ij \in Pairs : Rows(4)[k] = P[ij[1]] \o G[ij[2]]
    /\ \A k \in 1..Len(Rows(4)) :
         /\ \A i \in LonePs : SubSeq(Rows(4)[k], 1, PWidth) # P[i]
         /\ \A j \in LoneGs : SubSeq(Rows(4)[k], PWidth + 1, PWidth + GWidth) # G[j]
C6_Witness ==
  /\ joinsPc >= 4
  /\ Literals
  /\ Rows(4) = << P[1] \o G[1], P[2] \o G[3], P[3] \o G[3] >>
  /\ \A k \in 1..Len(Rows(4)) : Rows(4)[k][PWidth + 1] # V(2)

\* C7: join() without `how` (cell 4) shows the same columns and the same rows
\* as join() with how = "inner" (cell 5) on the same DataFrames and expression.
C7_InnerIsDefault ==
  joinsPc >= 5 => joinsOut[4] = joinsOut[5]
C7_Witness ==
  /\ joinsPc >= 6
  /\ Literals
  /\ joinsOut[4] = joinsOut[5]
  /\ joinsOut[5] # joinsOut[6]
  /\ Len(Rows(5)) = 3

\* C8: the outer join (cell 6) is, as a bag, the joined pairs p ++ g, each
\* person row that no program matches once with nulls in the program columns,
\* and each program row that no person matches once with nulls in the person
\* columns; so every row of either DataFrame is in at least one result row.
C8_OuterJoin ==
  joinsPc >= 6 =>
    /\ Names(6) = PersonNames \o GraduateProgramNames
    /\ Len(Rows(6)) =
         Cardinality(Pairs) + Cardinality(LonePs) + Cardinality(LoneGs)
    /\ \A ij \in Pairs :
         Count(Rows(6), P[ij[1]] \o G[ij[2]]) =
           Cardinality({ab \in Pairs : P[ab[1]] \o G[ab[2]] = P[ij[1]] \o G[ij[2]]})
    /\ \A i \in LonePs :
         Count(Rows(6), P[i] \o GNulls) = Cardinality({a \in LonePs : P[a] = P[i]})
    /\ \A j \in LoneGs :
         Count(Rows(6), PNulls \o G[j]) = Cardinality({b \in LoneGs : G[b] = G[j]})
    /\ \A i \in PIdx :
         \E k \in 1..Len(Rows(6)) : SubSeq(Rows(6)[k], 1, PWidth) = P[i]
    /\ \A j \in GIdx :
         \E k \in 1..Len(Rows(6)) :
           SubSeq(Rows(6)[k], PWidth + 1, PWidth + GWidth) = G[j]
    /\ \A k \in 1..Len(Rows(6)) :
         \/ \E ij \in Pairs : Rows(6)[k] = P[ij[1]] \o G[ij[2]]
         \/ \E i \in LonePs : Rows(6)[k] = P[i] \o GNulls
         \/ \E j \in LoneGs : Rows(6)[k] = PNulls \o G[j]
C8_Witness ==
  /\ joinsPc >= 6
  /\ Literals
  /\ Len(Rows(6)) = 4
  /\ Count(Rows(6), PNulls \o G[2]) = 1
  /\ G[2][1] = V(2)

\* C9: the left outer join of graduateProgram with person (cell 7) has every
\* program row once per person row that matches it, a program row that no
\* person matches exactly once with nulls in the person columns, and no
\* other row: a person row that matches no program is in no result row.
C9_LeftOuterJoin ==
  joinsPc >= 7 =>
    /\ Names(7) = GraduateProgramNames \o PersonNames
    /\ Len(Rows(7)) = Cardinality(Pairs) + Cardinality(LoneGs)
    /\ \A ij \in Pairs :
         Count(Rows(7), G[ij[2]] \o P[ij[1]]) =
           Cardinality({ab \in Pairs : G[ab[2]] \o P[ab[1]] = G[ij[2]] \o P[ij[1]]})
    /\ \A j \in LoneGs :
         Count(Rows(7), G[j] \o PNulls) = Cardinality({b \in LoneGs : G[b] = G[j]})
    /\ \A j \in GIdx :
         Count([k \in 1..Len(Rows(7)) |-> SubSeq(Rows(7)[k], 1, GWidth)], G[j]) =
           Cardinality({b \in GIdx : G[b] = G[j]}) *
             (IF j \in LoneGs THEN 1 ELSE Cardinality({i \in PIdx : Pair(i, j)}))
    /\ \A k \in 1..Len(Rows(7)) :
         \A i \in LonePs : SubSeq(Rows(7)[k], GWidth + 1, GWidth + PWidth) # P[i]
C9_Witness ==
  /\ joinsPc >= 7
  /\ Literals
  /\ Len(Rows(7)) = 4
  /\ Count(Rows(7), G[2] \o PNulls) = 1
  /\ Count(Rows(7), G[3] \o P[2]) = 1 /\ Count(Rows(7), G[3] \o P[3]) = 1

\* A row with its first n cells moved behind the others.
SwapBlocks(row, n) == SubSeq(row, n + 1, Len(row)) \o SubSeq(row, 1, n)

\* C10: person.join(graduateProgram, expr, "right_outer") (cell 8) and
\* graduateProgram.join(person, expr, "left_outer") (cell 7) hold the same
\* rows, as bags, once the two blocks of columns of one are exchanged.
C10_RightOuterIsSwappedLeftOuter ==
  joinsPc >= 8 =>
    LET swapped == [k \in 1..Len(Rows(8)) |-> SwapBlocks(Rows(8)[k], PWidth)]
    IN /\ SwapBlocks(Names(8), PWidth) = Names(7)
       /\ Len(swapped) = Len(Rows(7))
       /\ \A k \in 1..Len(swapped) :
            Count(swapped, swapped[k]) = Count(Rows(7), swapped[k])
       /\ {swapped[k] : k \in 1..Len(swapped)} =
            {Rows(7)[k] : k \in 1..Len(Rows(7))}
C10_Witness ==
  /\ joinsPc >= 8
  /\ Literals
  /\ Len(Rows(8)) = 4
  /\ Count(Rows(8), PNulls \o G[2]) = 1
  /\ Count(Rows(7), G[2] \o PNulls) = 1
  /\ Names(8) # Names(7)

\* C11: the left semi join of graduateProgram with person (cell 9) has the
\* columns of graduateProgram only and, as a bag, exactly the program rows
\* that some person matches, each as often as it is in graduateProgram
\* however many persons match it.
C11_LeftSemiJoin ==
  joinsPc >= 9 =>
    /\ Names(9) = GraduateProgramNames
    /\ Len(Rows(9)) = Cardinality(GIdx \ LoneGs)
    /\ \A j \in GIdx \ LoneGs :
         Count(Rows(9), G[j]) = Cardinality({b \in GIdx : G[b] = G[j]})
    /\ \A k \in 1..Len(Rows(9)) : \E j \in GIdx \ LoneGs : Rows(9)[k] = G[j]
C11_Witness ==
  /\ joinsPc >= 9
  /\ Literals
  /\ Rows(9) = << G[1], G[3] >>
  /\ Cardinality({i \in PIdx : Pair(i, 3)}) = 2

\* C12: the left anti join (cell 10) and the left semi join (cell 9) of
\* graduateProgram with person have no row in common and, as bags, hold
\* together exactly the rows of graduateProgram.
C12_AntiIsOppositeOfSemi ==
  joinsPc >= 10 =>
    /\ Names(10) = Names(9)
    /\ {Rows(9)[k] : k \in 1..Len(Rows(9))} \cap
         {Rows(10)[k] : k \in 1..Len(Rows(10))} = {}
    /\ Len(Rows(9)) + Len(Rows(10)) = Len(G)
    /\ \A j \in GIdx :
         Count(Rows(9), G[j]) + Count(Rows(10), G[j]) = Count(G, G[j])
C12_Witness ==
  /\ joinsPc >= 10
  /\ Literals
  /\ Rows(10) = << G[2] >>
  /\ Rows(9) = << G[1], G[3] >>

\* C13: the cross join of person with graduateProgram (cell 11) holds, as a
\* bag, each pair of a person row and a program row exactly once, so it has
\* Len(person) * Len(graduateProgram) rows (9 for the literals), and it is the
\* inner join that specifies no predicate.
C13_CrossJoin ==
  joinsPc >= 11 =>
    /\ Names(11) = PersonNames \o GraduateProgramNames
    /\ Len(Rows(11)) = Len(P) * Len(G)
    /\ \A i \in PIdx, j \in GIdx :
         Count(Rows(11), P[i] \o G[j]) =
           Cardinality({ab \in PIdx \X GIdx : P[ab[1]] \o G[ab[2]] = P[i] \o G[j]})
    /\ LET inner == Join(joinsEnv.person, joinsEnv.graduateProgram,
                         NoPredicate, "inner").rows
       IN /\ Len(inner) = Len(Rows(11))
          /\ \A k \in 1..Len(inner) :
               Count(inner, inner[k]) = Count(Rows(11), inner[k])
C13_Witness ==
  /\ joinsPc >= 11
  /\ Literals
  /\ Len(Rows(11)) = 9
  /\ Count(Rows(11), P[1] \o G[2]) = 1

\* The plans printed by cells 16 and 17, and the operators of one input of a
\* plan that move or order rows.
Plan(i) == joinsOut[i][1]
PersonKey == ColRef(joinsEnv.person, "graduate_program")
ProgramKey == ColRef(joinsEnv.graduateProgram, "id")
Movers(side) ==
  SelectSeq(side, LAMBDA n :
    n.node \in {"Sort", "Exchange hashpartitioning", "BroadcastExchange"})
Readers(side) ==
  SelectSeq(side, LAMBDA n :
    n.node \notin {"Sort", "Exchange hashpartitioning", "BroadcastExchange"})

\* C14: without a hint (cell 16) the plan is a sort-merge join, and each of
\* its two inputs is exchanged by hash partitioning on its join key and then
\* sorted on that key, in that order, above its scan.
C14_SortMergeByDefault ==
  joinsPc >= 16 =>
    /\ Plan(16).kind = "plan"
    /\ Plan(16).node = "SortMergeJoin"
    /\ Plan(16).leftKeys = <<PersonKey>>
    /\ Plan(16).rightKeys = <<ProgramKey>>
    /\ Len(Movers(Plan(16).left)) = 2
    /\ Len(Movers(Plan(16).right)) = 2
    /\ [k \in 1..2 |-> Movers(Plan(16).left)[k].node] =
         <<"Sort", "Exchange hashpartitioning">>
    /\ [k \in 1..2 |-> Movers(Plan(16).right)[k].node] =
         <<"Sort", "Exchange hashpartitioning">>
    /\ \A k \in 1..2 : /\ Movers(Plan(16).left)[k].attrs = <<PersonKey>>
                       /\ Movers(Plan(16).right)[k].attrs = <<ProgramKey>>
C14_Witness ==
  /\ joinsPc >= 16
  /\ Plan(16).node = "SortMergeJoin"
  /\ Plan(16).left[2].node = "Exchange hashpartitioning"
  /\ Plan(16).right[1].node = "Sort"

\* C15: with broadcast(graduateProgram) (cell 17) the plan is a broadcast
\* hash join whose build side is graduateProgram, broadcast exactly once;
\* person is neither exchanged nor sorted; the join type, the join keys and
\* what is read below the exchanges are those of the plan of cell 16.
C15_BroadcastChangesStrategyOnly ==
  joinsPc >= 17 =>
    /\ Plan(17).node = "BroadcastHashJoin"
    /\ Plan(17).node # Plan(16).node
    /\ Plan(17).build = "BuildRight"
    /\ Movers(Plan(17).right) =
         << [node |-> "BroadcastExchange", attrs |-> <<ProgramKey>>] >>
    /\ Movers(Plan(17).left) = <<>>
    /\ Plan(17).joinType = "Inner"
    /\ Plan(17).joinType = Plan(16).joinType
    /\ Plan(17).leftKeys = Plan(16).leftKeys
    /\ Plan(17).rightKeys = Plan(16).rightKeys
    /\ Plan(17).leftKeys = <<PersonKey>>
    /\ Plan(17).rightKeys = <<ProgramKey>>
    /\ Readers(Plan(17).left) = Readers(Plan(16).left)
    /\ Readers(Plan(17).right) = Readers(Plan(16).right)
C15_Witness ==
  /\ joinsPc >= 17
  /\ Plan(17).node = "BroadcastHashJoin"
  /\ Plan(17).right[1].node = "BroadcastExchange"
  /\ Plan(16).node = "SortMergeJoin"

\* What the catalog lists now, and the three entries the run can list.
ListedNow == {ListTables(catalog)[k] : k \in 1..Len(ListTables(catalog))}
FlightsFromSelectListed ==
  [name |-> "flights_from_select", database |-> V("default"),
   description |-> Null, tableType |-> "MANAGED", isTemporary |-> FALSE]
FlightsViewListed ==
  [name |-> "flights_view", database |-> Null,
   description |-> Null, tableType |-> "TEMPORARY", isTemporary |-> TRUE]
JustUsaViewListed ==
  [name |-> "just_usa_view", database |-> V("default"),
   description |-> Null, tableType |-> "VIEW", isTemporary |-> FALSE]

\* C16 as stated: from the CREATE TABLE cell (4) until the DROP TABLE cell
\* (19) the catalog lists exactly the two tables flights_from_select and
\* flights_view.
C16_ExactlyTwoTables ==
  (4 <= sqlPc /\ sqlPc < 19) =>
    /\ Len(ListTables(catalog)) = 2
    /\ ListedNow = {FlightsFromSelectListed, FlightsViewListed}

\* C16: from the CREATE TABLE cell (4) until the DROP TABLE cell (19) the
\* catalog lists flights_from_select (MANAGED, not temporary, database
\* default) and flights_view (TEMPORARY, no database), each once, and nothing
\* else but, between the CREATE VIEW cell (17) and the DROP VIEW cell (18),
\* the view just_usa_view of database default.
C16_TwoTablesAndTheView ==
  (4 <= sqlPc /\ sqlPc < 19) =>
    /\ IF sqlPc = 17
       THEN /\ Len(ListTables(catalog)) = 3
            /\ ListedNow = {FlightsFromSelectListed, FlightsViewListed,
                            JustUsaViewListed}
       ELSE /\ Len(ListTables(catalog)) = 2
            /\ ListedNow = {FlightsFromSelectListed, FlightsViewListed}
C16_Witness ==
  /\ sqlPc = 17
  /\ Len(ListTables(catalog)) = 3
  /\ JustUsaViewListed \in ListedNow
  /\ sqlOut[8][1].repr = << FlightsFromSelectListed, FlightsViewListed >>

\* What cells 8 to 11 displayed.
ListTablesOut == sqlOut[8][1].repr
ShowTablesOut == sqlOut[9][1].rows
ListDatabasesOut == sqlOut[10][1].repr
ShowDatabasesOut == sqlOut[11][1].rows

\* C17 as stated: SHOW TABLES (cell 9) reports the tables of Cat.listTables()
\* (cell 8) with the same name, database and isTemporary values.
C17_SameValues ==
  sqlPc >= 9 =>
    /\ Len(ShowTablesOut) = Len(ListTablesOut)
    /\ \A k \in 1..Len(ListTablesOut) :
         ShowTablesOut[k] = << ListTablesOut[k].database,
                               V(ListTablesOut[k].name),
                               V(ListTablesOut[k].isTemporary) >>

\* C17: SHOW TABLES and Cat.listTables() report the same tables with the same
\* names and isTemporary values, and the same database for a table that has
\* one; for a table that has none Cat.listTables() reports None and SHOW
\* TABLES the empty string.  SHOW DATABASES and Cat.listDatabases() report
\* the same database names.  This holds of what cells 8 to 11 displayed and
\* of what the four would report at any point of the run.
C17_SameCatalogView ==
  /\ Len(ShowTables(catalog).rows) = Len(ListTables(catalog))
  /\ \A k \in 1..Len(ListTables(catalog)) :
       ShowTables(catalog).rows[k] =
         << IF ListTables(catalog)[k].database = Null THEN V("")
            ELSE ListTables(catalog)[k].database,
            V(ListTables(catalog)[k].name),
            V(ListTables(catalog)[k].isTemporary) >>
  /\ ShowDatabases(catalog).rows =
       [k \in 1..Len(ListDatabases(catalog)) |->
          <<V(ListDatabases(catalog)[k].name)>>]
  /\ sqlPc >= 9 =>
       /\ Len(ShowTablesOut) = Len(ListTablesOut)
       /\ \A k \in 1..Len(ListTablesOut) :
            ShowTablesOut[k] =
              << IF ListTablesOut[k].database = Null THEN V("")
                 ELSE ListTablesOut[k].database,
                 V(ListTablesOut[k].name),
                 V(ListTablesOut[k].isTemporary) >>
  /\ sqlPc >= 11 =>
       ShowDatabasesOut =
         [k \in 1..Len(ListDatabasesOut) |-> <<V(ListDatabasesOut[k].name)>>]
C17_Witness ==
  /\ sqlPc >= 11
  /\ \E k \in 1..Len(ListTablesOut) :
       ListTablesOut[k].database = Null /\ ShowTablesOut[k][1] = V("")
  /\ \E k \in 1..Len(ListTablesOut) :
       ListTablesOut[k].database = V("default") /\ ShowTablesOut[k][1] = V("default")
  /\ ShowDatabasesOut = << <<V("default")>> >>

\* The cells that inspect the catalog.
InspectionCells == {6, 8, 9, 10, 11, 12, 13}

\* C18: a step that runs an inspection cell leaves the catalog and the cache
\* as they were, and the list Cat.listTables() returned in cell 13 is the
\* list it returned in cell 8.
C18_InspectionStep ==
  (sqlPc' = sqlPc + 1 /\ sqlPc' \in InspectionCells) =>
    (catalog' = catalog /\ cached' = cached /\ ~ sqlHalted')
C18_InspectionLeavesCatalog ==
  /\ [][C18_InspectionStep]_vars
  /\ [](sqlPc >= 13 => sqlOut[13] = sqlOut[8])
C18_Witness ==
  /\ sqlPc >= 13
  /\ Len(sqlOut[13][1].repr) = 2
  /\ sqlOut[13] = sqlOut[8]
  /\ sqlOut[12][1].repr # <<>>

\* C19: while flights_from_select exists its columns are those of
\* flights_view, and DESCRIBE TABLE (cell 6) and Cat.listColumns (cell 12)
\* report them with the same names and types in the same order:
\* DEST_COUNTRY_NAME string, ORIGIN_COUNTRY_NAME string, count bigint.
C19_ColumnsOfSource ==
  /\ (4 <= sqlPc /\ sqlPc < 19) =>
       Lookup(catalog, "flights_from_select").schema =
         Lookup(catalog, "flights_view").schema
  /\ sqlPc >= 12 =>
       /\ [k \in 1..Len(sqlOut[6][1].rows) |->
             <<sqlOut[6][1].rows[k][1], sqlOut[6][1].rows[k][2]>>] =
          [k \in 1..Len(sqlOut[12][1].repr) |->
             <<V(sqlOut[12][1].repr[k].name), V(sqlOut[12][1].repr[k].dataType)>>]
       /\ [k \in 1..Len(sqlOut[12][1].repr) |->
             <<sqlOut[12][1].repr[k].name, sqlOut[12][1].repr[k].dataType>>] =
          << <<"DEST_COUNTRY_NAME", "string">>,
             <<"ORIGIN_COUNTRY_NAME", "string">>,
             <<"count", "bigint">> >>
C19_Witness ==
  /\ sqlPc >= 12
  /\ Len(sqlOut[6][1].rows) = 3
  /\ Len(sqlOut[12][1].repr) = 3
  /\ sqlOut[6][1].rows[3] = <<V("count"), V("bigint"), Null>>

\* C20: the DROP TABLE cell (19) runs only while flights_from_select is a
\* table of the catalog, raises nothing and removes it; the DROP TABLE IF
\* EXISTS cell (20), run next, finds no such table, raises nothing, displays
\* DataFrame[] and leaves the catalog as it was.
C20_DropStep ==
  /\ (sqlPc = 18 /\ sqlPc' = 19) =>
       /\ Has(catalog.tables, "flights_from_select")
       /\ ~ Exists(catalog', "flights_from_select")
       /\ ~ sqlHalted'
  /\ (sqlPc = 19 /\ sqlPc' = 20) =>
       /\ ~ Exists(catalog, "flights_from_select")
       /\ catalog' = catalog
       /\ ~ sqlHalted'
       /\ sqlOut'[20] = <<EmptyDataFrame>>
C20_DropIfExistsAfterDrop == [][C20_DropStep]_vars
C20_Witness ==
  /\ sqlPc = 20
  /\ ~ sqlHalted
  /\ sqlOut[19] = <<EmptyDataFrame>>
  /\ sqlOut[20] = <<EmptyDataFrame>>
  /\ ~ Exists(catalog, "flights_from_select")

\* What cell i did in run r, once it has run.
Logged(r, i) == (r - 1) * SqlCells + i <= Len(sqlLog)
LogOf(r, i) == sqlLog[(r - 1) * SqlCells + i]

\* C21: in no state of a run does the catalog hold just_usa_view without
\* flights_from_select: the CREATE VIEW cell (17) runs while the table exists
\* and succeeds, and the DROP TABLE cell (19) runs when the view is gone.
C21_ViewNeedsTable ==
  Has(catalog.tables, "just_usa_view") => Has(catalog.tables, "flights_from_select")
C21_ViewStep ==
  /\ (sqlPc = 16 /\ sqlPc' = 17) =>
       /\ Has(catalog.tables, "flights_from_select")
       /\ Has(catalog'.tables, "just_usa_view")
       /\ ~ sqlHalted'
  /\ (sqlPc = 17 /\ sqlPc' = 18) => ~ Has(catalog'.tables, "just_usa_view")
  /\ (sqlPc = 18 /\ sqlPc' = 19) => ~ Has(catalog.tables, "just_usa_view")
C21_ViewNeverOutlivesTable == [] C21_ViewNeedsTable /\ [][C21_ViewStep]_vars
C21_Witness ==
  /\ sqlPc = 19
  /\ sqlRun = 2
  /\ LogOf(2, 17).raised = {}
  /\ Has(LogOf(2, 17).catalog.tables, "just_usa_view")
  /\ ~ Has(LogOf(2, 18).catalog.tables, "just_usa_view")
  /\ Has(LogOf(2, 18).catalog.tables, "flights_from_select")
  /\ ~ Exists(catalog, "flights_from_select")

\* C22 as stated: in a later run every cell has the outcome it had in the
\* first run and leaves the catalog it left in the first run.
C22_SameCatalogAfterEachCell ==
  \A r \in 2..sqlRun : \A i \in 1..SqlCells :
    Logged(r, i) =>
      /\ LogOf(r, i).out = LogOf(1, i).out
      /\ LogOf(r, i).raised = LogOf(1, i).raised
      /\ LogOf(r, i).catalog = LogOf(1, i).catalog

\* C22: after a full run the catalog holds the temp view flights_view and
\* nothing else, and no cell has raised.  In a later run every cell displays
\* what it displayed in the first run and raises what it raised there
\* (nothing; cell 16 shows the missing-view error), and from cell 2 on it
\* leaves the catalog it left in the first run.  After cell 1 the catalog of
\* a later run holds flights_view, which in the first run cell 2 registers.
C22_RerunFromTop ==
  /\ ~ sqlHalted
  /\ sqlPc = SqlCells =>
       /\ catalog.tables = <<>>
       /\ catalog.temps = << TempViewEntry("flights_view", FlightsSchema) >>
       /\ catalog.databases = NewCatalog.databases
  /\ \A r \in 2..sqlRun : \A i \in 1..SqlCells :
       Logged(r, i) =>
         /\ LogOf(r, i).out = LogOf(1, i).out
         /\ LogOf(r, i).raised = {}
         /\ LogOf(1, i).raised = {}
         /\ i = 16 => LogOf(r, i).out[1].errors = {NotFound("just_usa_view")}
         /\ i >= 2 => LogOf(r, i).catalog = LogOf(1, i).catalog
         /\ i = 1 =>
              /\ LogOf(1, i).catalog = NewCatalog
              /\ LogOf(r, i).catalog =
                   [NewCatalog EXCEPT
                      !.temps = << TempViewEntry("flights_view", FlightsSchema) >>]
C22_Witness ==
  /\ sqlRun = 2
  /\ sqlPc = SqlCells
  /\ Logged(2, SqlCells)
  /\ LogOf(2, 17).raised = {}
  /\ LogOf(2, 19).raised = {}
  /\ LogOf(2, 4).catalog.tables # <<>>

\* C23: CACHE TABLE flights_view (cell 14) followed by UNCACHE TABLE
\* flights_view (cell 15) leaves the set of cached tables as it was before
\* the pair, without flights_view, and leaves the catalog unchanged; neither
\* raises, and UNCACHE runs while flights_view is cached.
C23_RoundTrip ==
  \A r \in 1..sqlRun :
    Logged(r, 15) =>
      /\ LogOf(r, 15).cached = LogOf(r, 13).cached
      /\ "flights_view" \notin LogOf(r, 15).cached
      /\ "flights_view" \in LogOf(r, 14).cached
      /\ LogOf(r, 14).catalog = LogOf(r, 13).catalog
      /\ LogOf(r, 15).catalog = LogOf(r, 13).catalog
      /\ LogOf(r, 14).raised = {}
      /\ LogOf(r, 15).raised = {}
C23_UncacheStep ==
  (sqlPc = 14 /\ sqlPc' = 15) =>
    /\ "flights_view" \in cached
    /\ cached' = cached \ {"flights_view"}
    /\ catalog' = catalog
C23_CacheUncache == [] C23_RoundTrip /\ [][C23_UncacheStep]_vars
C23_Witness ==
  /\ sqlPc = 15
  /\ Logged(sqlRun, 15)
  /\ LogOf(sqlRun, 14).cached = {"flights_view"}
  /\ cached = {}
  /\ sqlOut[15] = <<EmptyDataFrame>>

====
